---- MODULE Spec2Model ----
(***************************************************************************)
(* SubsumptionMappingGenerator of deeponto/data/align/subs_maps.py:        *)
(* subsumption mappings derived from equivalence mappings by a bounded     *)
(* breadth-first walk of the target ontology's class hierarchy, under the  *)
(* static and the online marking policy.                                   *)
(*                                                                         *)
(* Class names (abbreviated IRIs) are integers; an ontology entity is      *)
(* identified with its full IRI <<"iri", n>>.  The name 0 is an IRI the    *)
(* target ontology does not hold.  The hierarchy accessor returns          *)
(* neighbours in ascending name order, and list(set(...)) yields its       *)
(* members in that same order.                                             *)
(***************************************************************************)
EXTENDS Integers, Sequences, FiniteSets, TLC

\* ---------------------------------------------------------------- bounds
NumTgt == 3
NumSrc == 2
MaxEdges == 4
MaxEquiv == 2
MaxRatio == 3
MaxHop == 2

VARIABLES
    isa,                  \* tgt_onto hierarchy: <<c, p>> iff p is an immediate super-class of c
    rel,                  \* self.rel
    equiv_mappings_path,  \* the mappings persisted at equiv_mappings_path
    equiv_pairs,          \* self.equiv_pairs
    max_subs_ratio,       \* self.max_subs_ratio
    max_hop,              \* self.max_hop
    is_delete_equiv_tgt,  \* self.is_delete_equiv_tgt
    sub_pairs,            \* self.sub_pairs
    hop_record,           \* self.hop_record
    delete_status,        \* self.delete_status
    construct_status,     \* self.construct_status
    pc,                   \* position of the caller in the generator's methods
    idx,                  \* position of the for loop over self.equiv_pairs (1-based)
    frontier,             \* locals of subs_from_an_equiv
    explored,
    hop,
    valid_neighbours,
    num_added,
    validated             \* the last call of validate_subs: <<subs_pair, outcome>>

inputs == <<isa, rel, equiv_mappings_path, equiv_pairs, max_subs_ratio, max_hop,
            is_delete_equiv_tgt>>
record == <<sub_pairs, hop_record, delete_status, construct_status>>
locals == <<frontier, explored, hop, valid_neighbours, num_added>>
vars == <<inputs, record, pc, idx, locals, validated>>

\* ------------------------------------------------------------ collaborators
subs_rels == {"<", ">"}

\* self.tgt_onto.class2idx.keys(), self.src_onto.class2idx.keys()
class2idx == 1..NumTgt
src_class2idx == 1..NumSrc

\* the target names an equivalence mapping file can hold
TgtNames == 0..NumTgt

unfold_iri(name) == <<"iri", name>>
abbr_iri(iri) == iri[2]

Range(s) == {s[i] : i \in DOMAIN s}

RECURSIVE AscSeq(_)
AscSeq(S) ==
    IF S = {} THEN <<>>
    ELSE LET m == CHOOSE x \in S : \A y \in S : x <= y
         IN <<m>> \o AscSeq(S \ {m})

\* list(set(ents)): the members once each, in the container's order
ListOfSet(S) ==
    LET names == AscSeq({abbr_iri(e) : e \in S})
    IN [i \in 1..Len(names) |-> unfold_iri(names[i])]

\* self.tgt_onto.owl.search(iri=...): the list of the entities with that IRI
search(iri) == IF abbr_iri(iri) \in class2idx THEN <<iri>> ELSE <<>>

super_thing_classes_of(ent) ==
    ListOfSet({unfold_iri(e[2]) : e \in {x \in isa : x[1] = abbr_iri(ent)}})

sub_thing_classes_of(ent) ==
    ListOfSet({unfold_iri(e[1]) : e \in {x \in isa : x[2] = abbr_iri(ent)}})

\* self.move, chosen in __init__
move_Opposite(ent) ==
    IF rel = "<" THEN sub_thing_classes_of(ent) ELSE super_thing_classes_of(ent)

move(ent) ==
    IF rel = "<" THEN super_thing_classes_of(ent) ELSE sub_thing_classes_of(ent)

\* deeponto.utils.uniqify: the first occurrence of every member, in order
RECURSIVE uniqify(_)
uniqify(ls) ==
    IF ls = <<>> THEN <<>>
    ELSE LET r == uniqify(SubSeq(ls, 1, Len(ls) - 1))
             x == ls[Len(ls)]
         IN IF x \in Range(r) THEN r ELSE Append(r, x)

\* -------------------------------------------------------------- the record
\* an attribute __init__ has not set yet
Unset == <<>>

\* validate_subs has not been called since the last method began
NoCall == <<>>

\* dict()
EmptyDict == [k \in {} |-> 0]

\* defaultdict(lambda: False): a name without a key reads False
AllFalse == [c \in TgtNames |-> FALSE]

\* d[k] = v on a dict
Put(d, k, v) == [x \in DOMAIN d \cup {k} |-> IF x = k THEN v ELSE d[x]]

\* ------------------------------------------------------ subs_from_an_equiv
\* while len(valid_neighbours) < self.max_subs_ratio and hop <= self.max_hop
LoopCond_HopOffByOne(valid, h) == Len(valid) < max_subs_ratio /\ h <= max_hop + 1

LoopCond_NoHopBound(valid, h) == Len(valid) < max_subs_ratio

LoopCond(valid, h) == Len(valid) < max_subs_ratio /\ h <= max_hop

\* (2) a subs pair is skipped if the target side is marked deleted
Skipped(del, neighbour_name) == is_delete_equiv_tgt /\ del[neighbour_name]

\* the neighbour is recorded, accepted and marked constructed
Accept(st, src, neighbour_name, h) ==
    [st EXCEPT !.hop_record = Put(@, <<src, neighbour_name>>, h),
               !.valid = Append(@, neighbour_name),
               !.construct = [@ EXCEPT ![neighbour_name] = TRUE],
               !.num_added = @ + 1]

\* the for loop over neighbours_of_ent, from position k; st carries the
\* hop record, the accepted list, the construct marks and num_added
RECURSIVE ScanNeighbours(_, _, _, _, _, _)
ScanNeighbours(nbs, k, st, del, src, h) ==
    IF k > Len(nbs) THEN st
    ELSE LET neighbour_name == abbr_iri(nbs[k])
         IN IF Skipped(del, neighbour_name)
            THEN ScanNeighbours(nbs, k + 1, st, del, src, h)
            ELSE LET st1 == Accept(st, src, neighbour_name, h)
                 IN IF st1.num_added = max_subs_ratio
                    THEN st1
                    ELSE ScanNeighbours(nbs, k + 1, st1, del, src, h)

\* the for loop over the frontier, from position j
RECURSIVE ScanFrontier(_, _, _, _, _, _)
ScanFrontier(fr, j, st, del, src, h) ==
    IF j > Len(fr) THEN st
    ELSE LET neighbours_of_ent == move(fr[j])
             st1 == ScanNeighbours(neighbours_of_ent, 1, st, del, src, h)
             st2 == [st1 EXCEPT !.cur = @ \o neighbours_of_ent,
                                !.explored = Append(@, fr[j])]
         IN ScanFrontier(fr, j + 1, st2, del, src, h)

\* frontier = list(set(cur_hop_neighbours) - set(explored))
NextFrontier_KeepExplored(cur_hop_neighbours, ex) == ListOfSet(Range(cur_hop_neighbours))

NextFrontier(cur_hop_neighbours, ex) == ListOfSet(Range(cur_hop_neighbours) \ Range(ex))

\* one iteration of the while loop; .cur is the next frontier
HopBody(fr, ex, hr, valid, con, n, del, src, h) ==
    LET st0 == [hop_record |-> hr, valid |-> valid, construct |-> con,
                num_added |-> n, cur |-> <<>>, explored |-> ex]
        st == ScanFrontier(fr, 1, st0, del, src, h)
    IN [st EXCEPT !.cur = NextFrontier(st.cur, st.explored)]

\* the return value of subs_from_an_equiv
SubsPairs(src, valid) == uniqify([i \in 1..Len(valid) |-> <<src, valid[i]>>])

\* ------------------------------------------- the two generation algorithms
\* mark deleted only if any subs can be generated
StaticMark_Always(del, tgt_equiv, tgt_equiv_ent) == [del EXCEPT ![tgt_equiv] = TRUE]

StaticMark_UnlessNeighbourMarked(del, tgt_equiv, tgt_equiv_ent) ==
    IF move(tgt_equiv_ent) # <<>>
       /\ \A i \in DOMAIN move(tgt_equiv_ent) : ~del[abbr_iri(move(tgt_equiv_ent)[i])]
    THEN [del EXCEPT ![tgt_equiv] = TRUE]
    ELSE del

StaticMark(del, tgt_equiv, tgt_equiv_ent) ==
    IF move(tgt_equiv_ent) # <<>> THEN [del EXCEPT ![tgt_equiv] = TRUE] ELSE del

\* (1) mark all equiv targets as to be deleted: the first for loop of
\* static_subs_construct from position k; ok is FALSE when a lookup found nothing
RECURSIVE MarkEquivTargets(_, _, _)
MarkEquivTargets(pairs, k, del) ==
    IF k > Len(pairs) THEN [del |-> del, ok |-> TRUE]
    ELSE LET tgt_equiv == pairs[k][2]
             found == search(unfold_iri(tgt_equiv))
         IN IF found = <<>> THEN [del |-> del, ok |-> FALSE]
            ELSE MarkEquivTargets(pairs, k + 1, StaticMark(del, tgt_equiv, found[1]))

\* (1) an equiv pair is skipped if the target side is marked constructed
OnlineSkipCond_NeighbourConstructed(con, tgt_equiv) ==
    is_delete_equiv_tgt /\
    (con[tgt_equiv] \/ \E c \in TgtNames : con[c] /\ <<"iri", c>> \in Range(move(<<"iri", tgt_equiv>>)))

OnlineSkipCond_WithoutFlag(con, tgt_equiv) == con[tgt_equiv]

OnlineSkipCond_Never(con, tgt_equiv) == FALSE

OnlineSkipCond(con, tgt_equiv) == is_delete_equiv_tgt /\ con[tgt_equiv]

\* if any subs are generated, mark the target class for deletion
OnlineMark_Always(del, tgt_equiv, cur_subs) ==
    IF is_delete_equiv_tgt THEN [del EXCEPT ![tgt_equiv] = TRUE] ELSE del

OnlineMark(del, tgt_equiv, cur_subs) ==
    IF is_delete_equiv_tgt /\ cur_subs # <<>>
    THEN [del EXCEPT ![tgt_equiv] = TRUE]
    ELSE del

\* remove duplicates
RemoveDuplicates_Skipped(pairs) == pairs

RemoveDuplicates(pairs) == uniqify(pairs)

\* ---------------------------------------------------------------- the model
Graphs == {E \in SUBSET {e \in class2idx \X class2idx : e[1] # e[2]} :
              Cardinality(E) <= MaxEdges}

\* the stores __init__ accepts: not empty, and some pair (the one its assert
\* samples) has both classes in the ontologies; source names are opaque, so
\* the first pair's source is named 1
Stores == {s \in UNION {[1..n -> src_class2idx \X TgtNames] : n \in 1..MaxEquiv} :
              /\ s[1][1] = 1
              /\ \E i \in DOMAIN s : s[i][2] \in class2idx}

\* the classes a walk from the classes of T can reach, T included
RECURSIVE Reach(_, _, _)
Reach(E, r, T) ==
    LET step == T \cup {IF r = "<" THEN e[2] ELSE e[1] :
                           e \in {x \in E : (IF r = "<" THEN x[1] ELSE x[2]) \in T}}
    IN IF step = T THEN T ELSE Reach(E, r, step)

\* every edge of the hierarchy lies on a walk from some equivalence target:
\* no method reads the neighbours of any other class
Relevant(E, r, pairs) ==
    LET R == Reach(E, r, {p[2] : p \in Range(pairs)})
    IN \A e \in E : (IF r = "<" THEN e[1] ELSE e[2]) \in R

\* a relation symbol that is not one of subs_rels
Rels == subs_rels \cup {"="}

\* the arguments of __init__, before it runs
Init ==
    /\ isa \in Graphs
    /\ rel \in Rels
    /\ equiv_mappings_path \in Stores
    /\ Relevant(isa, rel, equiv_mappings_path)
    /\ max_subs_ratio \in 1..MaxRatio
    /\ max_hop \in 1..MaxHop
    /\ is_delete_equiv_tgt \in BOOLEAN
    /\ equiv_pairs = Unset
    /\ sub_pairs = Unset
    /\ hop_record = Unset
    /\ delete_status = Unset
    /\ construct_status = Unset
    /\ pc = "new"
    /\ validated = NoCall
    /\ idx = 0
    /\ frontier = <<>>
    /\ explored = <<>>
    /\ hop = 0
    /\ valid_neighbours = <<>>
    /\ num_added = 0

\* if self.rel == "<" ... elif self.rel == ">" ... else: raise ValueError
RelKnown_ElseDescendants(r) == TRUE

RelKnown(r) == r \in subs_rels

\* __init__ raises ValueError: unknown subsumption relation
ConstructConfigError ==
    /\ pc = "new"
    /\ ~RelKnown(rel)
    /\ pc' = "config_error"
    /\ UNCHANGED <<inputs, record, idx, locals, validated>>

\* __init__ loads the mappings, samples a pair whose classes are in the
\* ontologies, and sets up the generation record
Construct ==
    /\ pc = "new"
    /\ RelKnown(rel)
    /\ \E i \in DOMAIN equiv_mappings_path :
          /\ equiv_mappings_path[i][1] \in src_class2idx
          /\ equiv_mappings_path[i][2] \in class2idx
    /\ equiv_pairs' = equiv_mappings_path
    /\ sub_pairs' = <<>>
    /\ hop_record' = EmptyDict
    /\ delete_status' = AllFalse
    /\ construct_status' = AllFalse
    /\ pc' = "ready"
    /\ UNCHANGED <<isa, rel, equiv_mappings_path, max_subs_ratio, max_hop,
                   is_delete_equiv_tgt, idx, locals, validated>>

\* __init__ loads the mappings and samples a pair with a class that is not
\* in its ontology: the assert fails
ConstructAssertError ==
    /\ pc = "new"
    /\ RelKnown(rel)
    /\ \E i \in DOMAIN equiv_mappings_path :
          \/ equiv_mappings_path[i][1] \notin src_class2idx
          \/ equiv_mappings_path[i][2] \notin class2idx
    /\ equiv_pairs' = equiv_mappings_path
    /\ pc' = "assert_error"
    /\ UNCHANGED <<isa, rel, equiv_mappings_path, max_subs_ratio, max_hop,
                   is_delete_equiv_tgt, record, idx, locals, validated>>

\* no generation method is running: the constructor or a pass has returned,
\* or a pass has raised
Idle == pc \in {"ready", "static_done", "online_done", "failed"}

NoLocals ==
    /\ frontier' = <<>>
    /\ explored' = <<>>
    /\ hop' = 0
    /\ valid_neighbours' = <<>>
    /\ num_added' = 0

\* renew_subs: the fresh generation record
renew_subs_Omitted ==
    [sub_pairs |-> sub_pairs, hop_record |-> hop_record,
     delete_status |-> delete_status, construct_status |-> construct_status]

renew_subs ==
    [sub_pairs |-> <<>>, hop_record |-> EmptyDict,
     delete_status |-> AllFalse, construct_status |-> AllFalse]

\* static_subs_construct up to its second for loop; a lookup that finds
\* nothing raises IndexError
StaticStart ==
    /\ Idle
    /\ LET fresh == renew_subs
           marked == IF is_delete_equiv_tgt
                     THEN MarkEquivTargets(equiv_pairs, 1, fresh.delete_status)
                     ELSE [del |-> fresh.delete_status, ok |-> TRUE]
       IN /\ sub_pairs' = fresh.sub_pairs
          /\ hop_record' = fresh.hop_record
          /\ construct_status' = fresh.construct_status
          /\ delete_status' = marked.del
          /\ pc' = IF marked.ok THEN "static_loop" ELSE "failed"
          /\ idx' = IF marked.ok THEN 1 ELSE 0
    /\ validated' = NoCall
    /\ UNCHANGED <<inputs, locals>>

\* online_subs_construct up to its for loop
OnlineStart ==
    /\ Idle
    /\ LET fresh == renew_subs
       IN /\ sub_pairs' = fresh.sub_pairs
          /\ hop_record' = fresh.hop_record
          /\ construct_status' = fresh.construct_status
          /\ delete_status' = fresh.delete_status
    /\ pc' = "online_loop"
    /\ idx' = 1
    /\ validated' = NoCall
    /\ UNCHANGED <<inputs, locals>>

\* the for loop of online_subs_construct skips the pair
OnlineSkip ==
    /\ pc = "online_loop"
    /\ idx <= Len(equiv_pairs)
    /\ OnlineSkipCond(construct_status, equiv_pairs[idx][2])
    /\ idx' = idx + 1
    /\ UNCHANGED <<inputs, record, pc, locals, validated>>

\* the call of subs_from_an_equiv, up to its while loop
SearchBegin ==
    /\ pc \in {"static_loop", "online_loop"}
    /\ idx <= Len(equiv_pairs)
    /\ pc = "online_loop" => ~OnlineSkipCond(construct_status, equiv_pairs[idx][2])
    /\ search(unfold_iri(equiv_pairs[idx][2])) # <<>>
    /\ frontier' = <<search(unfold_iri(equiv_pairs[idx][2]))[1]>>
    /\ explored' = <<>>
    /\ hop' = 1
    /\ valid_neighbours' = <<>>
    /\ num_added' = 0
    /\ pc' = IF pc = "static_loop" THEN "static_search" ELSE "online_search"
    /\ UNCHANGED <<inputs, record, idx, validated>>

\* the call of subs_from_an_equiv raises IndexError: the target is not in
\* the ontology
SearchFail ==
    /\ pc \in {"static_loop", "online_loop"}
    /\ idx <= Len(equiv_pairs)
    /\ pc = "online_loop" => ~OnlineSkipCond(construct_status, equiv_pairs[idx][2])
    /\ search(unfold_iri(equiv_pairs[idx][2])) = <<>>
    /\ pc' = "failed"
    /\ idx' = 0
    /\ UNCHANGED <<inputs, record, locals, validated>>

\* one iteration of the while loop of subs_from_an_equiv
SearchHop ==
    /\ pc \in {"static_search", "online_search"}
    /\ LoopCond(valid_neighbours, hop)
    /\ LET st == HopBody(frontier, explored, hop_record, valid_neighbours,
                         construct_status, num_added, delete_status,
                         equiv_pairs[idx][1], hop)
       IN /\ hop_record' = st.hop_record
          /\ valid_neighbours' = st.valid
          /\ construct_status' = st.construct
          /\ num_added' = st.num_added
          /\ explored' = st.explored
          /\ frontier' = st.cur
    /\ hop' = hop + 1
    /\ UNCHANGED <<inputs, sub_pairs, delete_status, pc, idx, validated>>

\* subs_from_an_equiv returns to the for loop of the running pass
SearchReturn ==
    /\ pc \in {"static_search", "online_search"}
    /\ ~LoopCond(valid_neighbours, hop)
    /\ LET cur_subs == SubsPairs(equiv_pairs[idx][1], valid_neighbours)
       IN /\ sub_pairs' = sub_pairs \o cur_subs
          /\ delete_status' =
                IF pc = "online_search"
                THEN OnlineMark(delete_status, equiv_pairs[idx][2], cur_subs)
                ELSE delete_status
    /\ pc' = IF pc = "static_search" THEN "static_loop" ELSE "online_loop"
    /\ idx' = idx + 1
    /\ NoLocals
    /\ UNCHANGED <<inputs, hop_record, construct_status, validated>>

\* the for loop is over: remove duplicates, and return
PassEnd ==
    /\ pc \in {"static_loop", "online_loop"}
    /\ idx > Len(equiv_pairs)
    /\ sub_pairs' = RemoveDuplicates(sub_pairs)
    /\ pc' = IF pc = "static_loop" THEN "static_done" ELSE "online_done"
    /\ idx' = 0
    /\ UNCHANGED <<inputs, hop_record, delete_status, construct_status, locals,
                   validated>>

\* thing_class_ancestors_of, thing_class_descendants_of: every class a walk
\* of one or more immediate steps reaches
thing_class_ancestors_of(ent) ==
    LET up == {abbr_iri(e) : e \in Range(super_thing_classes_of(ent))}
    IN {unfold_iri(n) : n \in Reach(isa, "<", up)}

thing_class_descendants_of(ent) ==
    LET down == {abbr_iri(e) : e \in Range(sub_thing_classes_of(ent))}
    IN {unfold_iri(n) : n \in Reach(isa, ">", down)}

\* subs_related of validate_subs
subs_related_Swapped(e) ==
    IF rel = "<" THEN thing_class_descendants_of(e) ELSE thing_class_ancestors_of(e)

subs_related(e) ==
    IF rel = "<" THEN thing_class_ancestors_of(e) ELSE thing_class_descendants_of(e)

\* self.equiv_maps.ranked[src_ent_name].keys(): the targets mapped to the
\* source, each once, in the order of the mappings
ranked_keys(src_ent_name) ==
    LET of_src == SelectSeq(equiv_pairs, LAMBDA p : p[1] = src_ent_name)
    IN uniqify([i \in 1..Len(of_src) |-> of_src[i][2]])

\* what a call gives back: a returned value, or IndexError
Returned(b) == [ok |-> TRUE, value |-> b]
IndexError == [ok |-> FALSE, value |-> FALSE]

\* the for loop of validate_subs, from the i-th equivalent target on
RECURSIVE ValidateLoop(_, _, _)
ValidateLoop(tgt_ent, keys, i) ==
    IF i > Len(keys) THEN Returned(FALSE)
    ELSE LET found == search(unfold_iri(keys[i]))
         IN IF found = <<>> THEN IndexError
            ELSE IF tgt_ent \in subs_related(found[1]) THEN Returned(TRUE)
            ELSE ValidateLoop(tgt_ent, keys, i + 1)

validate_subs(subs_pair) ==
    LET src_ent_name == subs_pair[1]
        tgt_ent_name == subs_pair[2]
        found == search(unfold_iri(tgt_ent_name))
    IN IF found = <<>> THEN IndexError
       ELSE ValidateLoop(found[1], ranked_keys(src_ent_name), 1)

\* a call of validate_subs between two methods, for a source that has a
\* mapping; the caller makes one call, and a call changes nothing that a
\* later call reads
ValidateSubs ==
    /\ validated = NoCall
    /\ Idle
    /\ \E subs_pair \in src_class2idx \X TgtNames :
          /\ ranked_keys(subs_pair[1]) # <<>>
          /\ validated' = <<subs_pair, validate_subs(subs_pair)>>
    /\ UNCHANGED <<inputs, record, pc, idx, locals>>

Next ==
    \/ ValidateSubs
    \/ ConstructConfigError
    \/ Construct
    \/ ConstructAssertError
    \/ StaticStart
    \/ OnlineStart
    \/ OnlineSkip
    \/ SearchBegin
    \/ SearchFail
    \/ SearchHop
    \/ SearchReturn
    \/ PassEnd

Spec == Init /\ [][Next]_vars

\* preserved_tgt_iris
preserved_tgt_iris_All ==
    LET keys == AscSeq(class2idx)
    IN [i \in 1..Len(keys) |-> unfold_iri(keys[i])]

preserved_tgt_iris ==
    LET keys == AscSeq(class2idx)
        kept == SelectSeq(keys, LAMBDA tgt_ent_name : ~delete_status[tgt_ent_name])
    IN [i \in 1..Len(kept) |-> unfold_iri(kept[i])]

\* ------------------------------------------------- whole runs, as functions
\* the while loop of subs_from_an_equiv, run to its end
RECURSIVE RunHops(_, _, _, _, _, _, _, _, _)
RunHops(fr, ex, hr, valid, con, n, del, src, h) ==
    IF LoopCond(valid, h)
    THEN LET st == HopBody(fr, ex, hr, valid, con, n, del, src, h)
         IN RunHops(st.cur, st.explored, st.hop_record, st.valid, st.construct,
                    st.num_added, del, src, h + 1)
    ELSE [hop_record |-> hr, valid |-> valid, construct |-> con]

\* the second for loop of static_subs_construct from position k, on the
\* record rec; ok is FALSE when a lookup found nothing
RECURSIVE RunStaticLoop(_, _, _)
RunStaticLoop(pairs, k, rec) ==
    IF k > Len(pairs) THEN [rec EXCEPT !.sub_pairs = RemoveDuplicates(@)]
    ELSE LET found == search(unfold_iri(pairs[k][2]))
         IN IF found = <<>> THEN [rec EXCEPT !.ok = FALSE]
            ELSE LET r == RunHops(<<found[1]>>, <<>>, rec.hop_record, <<>>,
                                  rec.construct_status, 0, rec.delete_status,
                                  pairs[k][1], 1)
                 IN RunStaticLoop(pairs, k + 1,
                        [rec EXCEPT !.sub_pairs = @ \o SubsPairs(pairs[k][1], r.valid),
                                    !.hop_record = r.hop_record,
                                    !.construct_status = r.construct])

\* static_subs_construct on a generator that has run no pass yet
RunStatic(pairs) ==
    LET marked == IF is_delete_equiv_tgt
                  THEN MarkEquivTargets(pairs, 1, AllFalse)
                  ELSE [del |-> AllFalse, ok |-> TRUE]
        rec == [sub_pairs |-> <<>>, hop_record |-> EmptyDict,
                delete_status |-> marked.del, construct_status |-> AllFalse,
                ok |-> marked.ok]
    IN IF marked.ok THEN RunStaticLoop(pairs, 1, rec) ELSE rec

\* ------------------------------------------------------------------ claims
Searching == pc \in {"static_search", "online_search"}
Done == pc \in {"static_done", "online_done"}
InStatic == pc \in {"static_loop", "static_search", "static_done"}
InOnline == pc \in {"online_loop", "online_search"}

\* the anchor of the running search
Anchor == equiv_pairs[idx][2]

EquivTargets == {equiv_pairs[i][2] : i \in DOMAIN equiv_pairs}
HasNeighbour(c) == move(unfold_iri(c)) # <<>>
Neighbours(c) == {abbr_iri(e) : e \in Range(move(unfold_iri(c)))}
Deleted == {c \in TgtNames : delete_status[c]}
Constructed == {c \in TgtNames : construct_status[c]}

\* C1: a call of subs_from_an_equiv never accepts more than max_subs_ratio
\* neighbours: the accepted list never grows past the cap, whatever the
\* frontier holds.
C1_CapRespected ==
    Searching => Len(valid_neighbours) <= max_subs_ratio

\* the classes k moves away from the classes of T
RECURSIVE Level(_, _)
Level(T, k) ==
    IF k = 0 THEN T ELSE UNION {Neighbours(c) : c \in Level(T, k - 1)}

\* the depths at which a walk from an equivalence anchor of src reaches name
Depths(src, name) ==
    {k \in 1..max_hop : \E i \in DOMAIN equiv_pairs :
        equiv_pairs[i][1] = src /\ name \in Level({equiv_pairs[i][2]}, k)}

\* C2: when a pass has returned, every hop_record[(source, neighbour)] is the
\* least depth at which a walk from an equivalence anchor of source reaches
\* neighbour.
C2_HopIsMinDepth ==
    Done => \A key \in DOMAIN hop_record :
                LET d == Depths(key[1], key[2])
                IN d # {} /\ hop_record[key] = CHOOSE k \in d : \A j \in d : k <= j

\* C3: every recorded hop distance lies in 1..max_hop, and every output pair
\* has a recorded hop distance.
C3_HopBounds ==
    /\ \A key \in DOMAIN hop_record : hop_record[key] \in 1..max_hop
    /\ \A i \in DOMAIN sub_pairs : sub_pairs[i] \in DOMAIN hop_record

C3_Witness ==
    /\ Done
    /\ max_hop >= 2
    /\ sub_pairs # <<>>
    /\ \E key \in DOMAIN hop_record : hop_record[key] = max_hop

\* C4: in a static pass with the deletion flag, from the end of the pre-pass
\* to the return the deleted classes are exactly the equivalence targets with
\* an immediate neighbour in the search direction, and a search from a target
\* without neighbours accepts nothing.
C4_StaticDeletion ==
    (InStatic /\ is_delete_equiv_tgt) =>
        /\ \A c \in TgtNames :
              delete_status[c] <=> (c \in EquivTargets /\ HasNeighbour(c))
        /\ (pc = "static_search" /\ ~HasNeighbour(Anchor)) => valid_neighbours = <<>>
        /\ (pc = "static_done" /\ \A c \in EquivTargets : ~HasNeighbour(c)) =>
              sub_pairs = <<>>

C4_Witness ==
    /\ pc = "static_done"
    /\ is_delete_equiv_tgt
    /\ sub_pairs # <<>>
    /\ \E c, d \in EquivTargets :
          /\ HasNeighbour(c) /\ delete_status[c]
          /\ ~HasNeighbour(d) /\ ~delete_status[d]

\* no class is deleted when an online pass starts, and no search accepts a
\* class that is marked deleted
C5_Inv ==
    (InOnline /\ is_delete_equiv_tgt) =>
        /\ (pc = "online_loop" /\ idx = 1) => Deleted = {}
        /\ pc = "online_search" =>
              \A i \in DOMAIN valid_neighbours : ~delete_status[valid_neighbours[i]]

\* the return of a search marks its anchor exactly when the search accepted a
\* neighbour, and no other step of an online pass changes delete_status
C5_Step ==
    (InOnline /\ is_delete_equiv_tgt) =>
        IF pc = "online_search" /\ pc' = "online_loop"
        THEN delete_status' =
                [delete_status EXCEPT ![Anchor] = @ \/ valid_neighbours # <<>>]
        ELSE delete_status' = delete_status

\* C5: in an online pass with the deletion flag no class is deleted when the
\* pass starts, the only step that changes delete_status is the return of a
\* search, which marks its anchor exactly when it accepted a neighbour, and no
\* later search accepts a class that is marked deleted.
C5_OnlineDeletion == [](C5_Inv) /\ [][C5_Step]_vars

C5_Witness ==
    /\ pc = "online_search"
    /\ is_delete_equiv_tgt
    /\ valid_neighbours # <<>>
    /\ \E c \in Deleted : \E i \in DOMAIN explored : c \in Neighbours(abbr_iri(explored[i]))

\* C6: when a pass has returned, sub_pairs holds no pair twice.
C6_NoDuplicates ==
    Done => \A i, j \in DOMAIN sub_pairs : i # j => sub_pairs[i] # sub_pairs[j]

C6_Witness ==
    /\ Done
    /\ ~is_delete_equiv_tgt
    /\ Len(equiv_pairs) = 2
    /\ equiv_pairs[1] = equiv_pairs[2]
    /\ sub_pairs # <<>>

\* C7: whenever no pass is running, the classes of preserved_tgt_iris and the
\* classes marked deleted are disjoint and together are the target class index.
C7_Partition ==
    Idle => LET preserved == {abbr_iri(x) : x \in Range(preserved_tgt_iris)}
            IN /\ preserved \cap Deleted = {}
               /\ preserved \cup Deleted = class2idx

C7_Witness ==
    /\ Done
    /\ Deleted # {}
    /\ Range(preserved_tgt_iris) # {}

\* C8: a static pass that has returned has produced the sub_pairs, hop_record
\* and delete_status a static pass produces on a generator that has run no
\* pass, whichever passes ran before it.
C8_StaticDeterministic ==
    pc = "static_done" =>
        LET fresh == RunStatic(equiv_pairs)
        IN /\ fresh.ok
           /\ sub_pairs = fresh.sub_pairs
           /\ hop_record = fresh.hop_record
           /\ delete_status = fresh.delete_status

C8_Witness ==
    /\ pc = "static_done"
    /\ Len(equiv_pairs) >= 2
    /\ sub_pairs # <<>>
    /\ Deleted # {}

\* the classes marked constructed are the classes the searches of this
\* online pass have accepted
C9_Inv ==
    InOnline =>
        Constructed = {sub_pairs[i][2] : i \in DOMAIN sub_pairs} \cup Range(valid_neighbours)

\* the for loop moves on to the next pair without a search exactly when the
\* deletion flag is set and the pair's own target is marked constructed
C9_Step ==
    (pc = "online_loop" /\ idx <= Len(equiv_pairs)) =>
        ((pc' = "online_loop" /\ idx' = idx + 1)
            <=> (is_delete_equiv_tgt /\ construct_status[equiv_pairs[idx][2]]))

\* C9: in an online pass the classes marked constructed are exactly the
\* classes accepted by the searches of this pass, and the for loop skips a
\* pair exactly when the deletion flag is set and the pair's own target is
\* marked constructed.
C9_OnlineSkip == [](C9_Inv) /\ [][C9_Step]_vars

\* pairs (A,B) then (X,B): the first search has constructed a neighbour of B
\* and not B, and the second search has begun
C9_Witness ==
    /\ pc = "online_search"
    /\ is_delete_equiv_tgt
    /\ idx = 2 /\ hop = 1
    /\ equiv_pairs[1][2] = equiv_pairs[2][2]
    /\ equiv_pairs[1][1] # equiv_pairs[2][1]
    /\ ~construct_status[Anchor]
    /\ Neighbours(Anchor) \cap Constructed # {}

Perms(n) == {q \in [1..n -> 1..n] : \A i, j \in 1..n : q[i] = q[j] => i = j}

\* C10: a static pass that has returned has the delete_status the pre-pass
\* gives for every permutation of the equivalence store.
C10_StaticOrderIndependent ==
    (pc = "static_done" /\ is_delete_equiv_tgt) =>
        \A q \in Perms(Len(equiv_pairs)) :
            LET permuted == [i \in 1..Len(equiv_pairs) |-> equiv_pairs[q[i]]]
                marked == MarkEquivTargets(permuted, 1, AllFalse)
            IN marked.ok /\ marked.del = delete_status

C10_Witness ==
    /\ pc = "static_done"
    /\ is_delete_equiv_tgt
    /\ Len(equiv_pairs) = 2
    /\ delete_status[equiv_pairs[1][2]]
    /\ HasNeighbour(equiv_pairs[2][2])
    /\ equiv_pairs[1][2] \in Neighbours(equiv_pairs[2][2])

\* ---------------------------------------------------------------- C11
\* the constructor has raised ValueError
ConfigError == pc = "config_error"

C11_Inv ==
    /\ rel \notin subs_rels => pc \in {"new", "config_error"}
    /\ ConfigError =>
          /\ rel \notin subs_rels
          /\ equiv_pairs = Unset
          /\ record = <<Unset, Unset, Unset, Unset>>

C11_Step ==
    /\ (pc = "new" /\ rel \notin subs_rels) => ConfigError'
    /\ ConfigError => UNCHANGED vars

\* C11: a constructor called with a relation symbol other than "<" and ">"
\* ends in the configuration error, with the equivalence store not loaded and
\* no generation record set up, and nothing runs on the instance afterwards.
C11_RelRejected == [](C11_Inv) /\ [][C11_Step]_vars

\* the constructor has rejected "=" with mappings waiting at the path
C11_Witness ==
    /\ ConfigError
    /\ rel = "="
    /\ equiv_mappings_path # <<>>
    /\ equiv_pairs = Unset

\* ---------------------------------------------------------------- C12
\* some target equivalent to src has name at the end of a walk of one or more
\* steps in the direction of the relation
Entailed(src, name) ==
    \E i \in DOMAIN equiv_pairs :
        /\ equiv_pairs[i][1] = src
        /\ \E k \in 1..NumTgt : name \in Level({equiv_pairs[i][2]}, k)

C12_Inv ==
    validated # NoCall =>
        LET subs_pair == validated[1]
            outcome == validated[2]
        IN /\ outcome.ok => (outcome.value <=> Entailed(subs_pair[1], subs_pair[2]))
           /\ ~outcome.ok =>
                 \/ subs_pair[2] \notin class2idx
                 \/ \E i \in DOMAIN equiv_pairs :
                       /\ equiv_pairs[i][1] = subs_pair[1]
                       /\ equiv_pairs[i][2] \notin class2idx

C12_Step ==
    (validated' # validated /\ validated' # NoCall) =>
        UNCHANGED <<inputs, record, pc, idx, locals>>

\* C12: a call of validate_subs((s, c)) that returns gives true exactly when
\* some target equivalent to s in the store has c among its transitive
\* ancestors ("<") or descendants (">"), false otherwise, and the call leaves
\* sub_pairs, hop_record, delete_status and construct_status as they were.
C12_ValidateSubs == [](C12_Inv) /\ [][C12_Step]_vars

\* after a pass that produced pairs, a call returned true for a class that is
\* two steps from the second target of its source and next to none of them;
\* the first target does not entail it
C12_Witness ==
    /\ Done
    /\ sub_pairs # <<>>
    /\ validated # NoCall
    /\ validated[2] = Returned(TRUE)
    /\ Len(equiv_pairs) = 2
    /\ equiv_pairs[1][1] = validated[1][1]
    /\ equiv_pairs[2][1] = validated[1][1]
    /\ equiv_pairs[1][2] \in class2idx
    /\ validated[1][2] \notin Neighbours(equiv_pairs[1][2])
    /\ validated[1][2] \notin Neighbours(equiv_pairs[2][2])
    /\ validated[1][2] \notin Level({equiv_pairs[1][2]}, 2)

\* ---------------------------------------------------------------- C13
\* a step that runs one iteration of the while loop
IsHop == Searching /\ hop' = hop + 1

\* the immediate neighbours of the nodes of a frontier
NeighboursOfFrontier(fr) == UNION {Range(move(ent)) : ent \in Range(fr)}

\* the search begins at its anchor with nothing explored, and the frontier
\* never holds a node twice or a node that was in a frontier before
C13_Inv ==
    Searching =>
        /\ hop = 1 => (explored = <<>> /\ frontier = <<unfold_iri(Anchor)>>)
        /\ Range(frontier) \cap Range(explored) = {}
        /\ \A i, j \in DOMAIN frontier : frontier[i] = frontier[j] => i = j

C13_Step ==
    IsHop =>
        /\ Range(explored') = Range(explored) \cup Range(frontier)
        /\ Range(frontier') = NeighboursOfFrontier(frontier) \ Range(explored')
        /\ \A i \in (Len(valid_neighbours) + 1)..Len(valid_neighbours') :
              ~(is_delete_equiv_tgt /\ delete_status[valid_neighbours'[i]])

\* C13: one iteration of the while loop of subs_from_an_equiv leaves as the
\* next frontier exactly the immediate neighbours of the nodes of the current
\* frontier (accepted, skipped as deleted, or not scanned after the cap) less
\* every node that has been in a frontier, and accepts no class that is marked
\* deleted.
C13_FrontierRenewal == [](C13_Inv) /\ [][C13_Step]_vars

\* two iterations have run: every neighbour of the anchor is marked deleted,
\* one of them was in the second frontier, and a class that is not next to
\* the anchor was accepted at the second hop
C13_Witness ==
    /\ Searching
    /\ is_delete_equiv_tgt
    /\ hop = 3
    /\ Neighbours(Anchor) # {}
    /\ Neighbours(Anchor) \subseteq Deleted
    /\ \E n \in Range(valid_neighbours) :
          /\ n \notin Neighbours(Anchor)
          /\ n # Anchor
          /\ <<equiv_pairs[idx][1], n>> \in DOMAIN hop_record
          /\ hop_record[<<equiv_pairs[idx][1], n>>] = 2

\* ---------------------------------------------------------------- C14
\* a generation pass is running
Running == pc \in {"static_loop", "static_search", "online_loop", "online_search"}

\* the iterations of the while loop the running search has made
Iterations == hop - 1

\* what is left of a running pass: the pairs from the current one on, and
\* within a search the hops up to max_hop
Variant ==
    (Len(equiv_pairs) + 1 - idx) * (max_hop + 3)
        + (IF Searching THEN 1 + (max_hop + 1 - hop) ELSE max_hop + 2)

\* the guard of some step of the pass holds
CanStep ==
    \/ /\ pc \in {"static_loop", "online_loop"}
       /\ idx > Len(equiv_pairs)
    \/ /\ pc \in {"static_loop", "online_loop"}
       /\ idx \in DOMAIN equiv_pairs
       /\ \/ pc = "online_loop" /\ OnlineSkipCond(construct_status, equiv_pairs[idx][2])
          \/ search(unfold_iri(equiv_pairs[idx][2])) # <<>>
          \/ search(unfold_iri(equiv_pairs[idx][2])) = <<>>
    \/ /\ Searching
       /\ idx \in DOMAIN equiv_pairs
       /\ \/ LoopCond(valid_neighbours, hop)
          \/ ~LoopCond(valid_neighbours, hop)

C14_Inv ==
    /\ Searching => Iterations \in 0..max_hop
    /\ Running => (Variant >= 0 /\ idx >= 1 /\ CanStep)

C14_Step ==
    Running => (~Running' \/ Variant' < Variant)

\* C14: a search makes at most max_hop iterations of its while loop, and a
\* running pass can always take a step and every step either ends it or
\* brings it nearer to its end, whatever the hierarchy and the deletion marks:
\* every pass ends, by returning or by a failed lookup.
C14_PassTerminates == [](C14_Inv) /\ [][C14_Step]_vars

\* a search has made max_hop iterations in a hierarchy with a cycle through
\* its anchor, every neighbour it met being marked deleted
C14_Witness ==
    /\ Searching
    /\ is_delete_equiv_tgt
    /\ max_hop = MaxHop
    /\ Iterations = max_hop
    /\ valid_neighbours = <<>>
    /\ Neighbours(Anchor) # {}
    /\ \E k \in 1..NumTgt : Anchor \in Level({Anchor}, k)

\* ---------------------------------------------------------------- C15
\* what static_subs_construct gives on the inputs of the pass that has run
StaticResult == RunStatic(equiv_pairs)

\* the online pass and the static pass end with different sets of pairs or
\* different deletion marks
OnlineDiffersFromStatic ==
    \/ Range(sub_pairs) # Range(StaticResult.sub_pairs)
    \/ delete_status # StaticResult.delete_status

\* C15: the online and the static pass differ only through the deletion
\* marks: with the flag disabled an online pass ends as the static pass does;
\* with it enabled the online marks, which accrue pair by pair, are among the
\* static marks, which are fixed before the first search, and the two passes
\* can end differently (the witness).
C15_OnlineVsStatic ==
    pc = "online_done" =>
        /\ StaticResult.ok
        /\ ~is_delete_equiv_tgt =>
              /\ ~OnlineDiffersFromStatic
              /\ sub_pairs = StaticResult.sub_pairs
              /\ hop_record = StaticResult.hop_record
        /\ is_delete_equiv_tgt =>
              \A c \in TgtNames : delete_status[c] => StaticResult.delete_status[c]

\* an online pass has ended with pairs the static pass does not give, or the
\* reverse, and with fewer deletion marks
C15_Witness ==
    /\ pc = "online_done"
    /\ is_delete_equiv_tgt
    /\ StaticResult.ok
    /\ Range(sub_pairs) # Range(StaticResult.sub_pairs)
    /\ delete_status # StaticResult.delete_status

\* ---------------------------------------------------------------- C16
\* the classes above a class, by one or more immediate super-class steps
RECURSIVE Above(_, _)
Above(T, k) ==
    IF k = 0 THEN {}
    ELSE LET up == {e[2] : e \in {x \in isa : x[1] \in T}}
         IN up \cup Above(up, k - 1)

\* no class is above itself
Acyclic == \A c \in class2idx : c \notin Above({c}, NumTgt)

\* C16: with the deletion flag enabled and an acyclic hierarchy, when a static
\* or an online pass has returned no target of a pair in sub_pairs is marked
\* deleted, and every such target is among preserved_tgt_iris.
C16_OutputPreserved ==
    (Done /\ is_delete_equiv_tgt /\ Acyclic) =>
        \A i \in DOMAIN sub_pairs :
            /\ ~delete_status[sub_pairs[i][2]]
            /\ unfold_iri(sub_pairs[i][2]) \in Range(preserved_tgt_iris)

\* an online pass over an acyclic hierarchy has returned: the first target is
\* marked deleted, and the second target, which the first search accepted, is
\* the target of an output pair and has a neighbour of its own
C16_Witness ==
    /\ pc = "online_done"
    /\ is_delete_equiv_tgt
    /\ Acyclic
    /\ Len(equiv_pairs) = 2
    /\ delete_status[equiv_pairs[1][2]]
    /\ equiv_pairs[2][2] \in {sub_pairs[i][2] : i \in DOMAIN sub_pairs}
    /\ HasNeighbour(equiv_pairs[2][2])

\* ---------------------------------------------------------------- C17
\* the running search is about to return
Returning == Searching /\ ~LoopCond(valid_neighbours, hop)

\* the classes within max_hop hops of the anchor in the search direction
WithinMaxHop == UNION {Level({Anchor}, k) : k \in 1..max_hop}

\* C17: a search that returns fewer than max_subs_ratio distinct pairs has
\* accepted every class within max_hop hops of its anchor that is not marked
\* deleted.
C17_FewerOnlyWhenExhausted ==
    (Returning /\ Cardinality(Range(valid_neighbours)) < max_subs_ratio) =>
        \A c \in WithinMaxHop : ~delete_status[c] => c \in Range(valid_neighbours)

\* ---------------------------------------------------------------- C18
\* name is a transitive ancestor ("<") or descendant (">") of the class t
InSubsRelation(t, name) ==
    IF rel = "<" THEN name \in Above({t}, NumTgt) ELSE t \in Above({name}, NumTgt)

\* C18: when a static or an online pass has returned, every pair (s, c) of
\* sub_pairs has c among the transitive ancestors ("<") or descendants (">")
\* of some target equivalent to s, and validate_subs((s, c)) returns true.
C18_GenerationSound ==
    Done =>
        \A i \in DOMAIN sub_pairs :
            /\ \E j \in DOMAIN equiv_pairs :
                  /\ equiv_pairs[j][1] = sub_pairs[i][1]
                  /\ InSubsRelation(equiv_pairs[j][2], sub_pairs[i][2])
            /\ validate_subs(sub_pairs[i]) = Returned(TRUE)

\* a pass has returned a pair found two hops from the second target of its
\* source, which the first target of that source does not entail, and
\* validate_subs has been called on it
C18_Witness ==
    /\ Done
    /\ Len(equiv_pairs) = 2
    /\ equiv_pairs[1][1] = equiv_pairs[2][1]
    /\ validated # NoCall
    /\ validated[1] \in Range(sub_pairs)
    /\ validated[2] = Returned(TRUE)
    /\ ~InSubsRelation(equiv_pairs[1][2], validated[1][2])
    /\ validated[1][2] \notin Neighbours(equiv_pairs[2][2])
====
